---- MODULE Spec2Model ----
(***************************************************************************)
(* Model of two parts of the tlsn repository:                              *)
(*                                                                         *)
(*  - tls-2pc-aio/src/prf/follower.rs: the asynchronous PRF follower, a    *)
(*    type-state machine MasterSecret -> ClientFinished -> ServerFinished  *)
(*    driven by compute_session_keys, compute_client_finished and          *)
(*    compute_server_finished.  Every await (channel.next(), channel.send, *)
(*    circuits::follower_c1/c2/c3) is one step of the model.               *)
(*                                                                         *)
(*  - notary-server/src/service.rs and domain/notary.rs: the /session      *)
(*    handler (initialize), the /notarize handler (upgrade_protocol) and   *)
(*    notary_service, over the shared session store of NotaryGlobals.      *)
(***************************************************************************)
EXTENDS Integers, Sequences, FiniteSets, TLC

VARIABLES
    \* ---- PRF follower (follower.rs) ----
    held,             \* phase of the PRFFollower value the caller owns, or "None"
    pc,               \* position of the running driver method, "idle" when none runs
    secret_share,     \* argument of compute_session_keys
    outer_hash_state, \* local `outer_hash_state` (shadowed at line 93)
    core,             \* the pure core value the driver currently owns
    msg,              \* local `msg`: the outbound payload computed by the core
    result,           \* what the last driver method returned
    inbox,            \* leader -> follower messages in flight on the channel
    closed,           \* the leader has closed the channel
    wire,             \* follower -> leader messages handed to the transport
    received,         \* messages channel.next() has yielded to the follower
    gc_log,           \* circuit invocations on gc_exec, in order
    calls,            \* driver methods invoked, in order
    \* ---- notary server (service.rs, domain/notary.rs) ----
    store,            \* NotaryGlobals.store: session id -> SessionData
    issued,           \* session ids Uuid::new_v4() has produced
    upg,              \* /notarize requests in progress
    init_log,         \* request and response of the last /session request
    max_transcript_size, \* notarization_config.max_transcript_size
    overflow_checks   \* build profile: TRUE when `+` panics on overflow

follower_vars == <<held, pc, secret_share, outer_hash_state, core, msg, result,
                   inbox, closed, wire, received, gc_log, calls>>
notary_vars == <<store, issued, upg, init_log, max_transcript_size, overflow_checks>>
vars == <<follower_vars, notary_vars>>

(***************************************************************************)
(* Bounds of the model.                                                    *)
(***************************************************************************)
MaxInFlight == 1
MaxSessions == 2
MaxUpgrades == 2
WordBits == 3

(***************************************************************************)
(* PRFMessage: the tagged union carried by PRFChannel.                     *)
(***************************************************************************)
LeaderTags == {"LeaderMs1", "LeaderMs2", "LeaderMs3", "LeaderKe1", "LeaderKe2",
               "LeaderCf1", "LeaderCf2", "LeaderSf1", "LeaderSf2"}
FollowerTags == {"FollowerMs1", "FollowerMs2", "FollowerKe1", "FollowerKe2",
                 "FollowerCf1", "FollowerCf2", "FollowerSf1", "FollowerSf2"}
Tags == LeaderTags \cup FollowerTags
Payloads == {"payload"}
SecretShares == {"share0"}

PRFMessage(tag, payload) == [tag |-> tag, payload |-> payload]
InboundMessages == {PRFMessage(t, p) : t \in Tags, p \in Payloads}

(***************************************************************************)
(* PRFError.  UnexpectedMessage is built directly (line 52); the other two *)
(* come out of From conversions: PRFError::from(std::io::Error) (line 54,  *)
(* and the `?` on channel.send) and the `?` on the circuits' results.      *)
(***************************************************************************)
IoErrorKinds == {"ConnectionAborted", "BrokenPipe"}
IoError(kind, text) == [kind |-> kind, text |-> text]
TransportErrors == {IoError(k, "transport") : k \in IoErrorKinds}

UnexpectedMessage(m) == [variant |-> "UnexpectedMessage", msg |-> m]
PRFErrorFromIo(e) == [variant |-> "Io", io |-> e]
PRFErrorFromGC(c) == [variant |-> "GarbledCircuit", circuit |-> c]
StreamClosed == PRFErrorFromIo(IoError("ConnectionAborted", "stream closed unexpectedly"))

NoResult == [method |-> "none", status |-> "none"]
Ok(method, value) == [method |-> method, status |-> "Ok", value |-> value]
Err(method, error, cause) ==
    [method |-> method, status |-> "Err", err |-> error, cause |-> cause]

(***************************************************************************)
(* The pure core (tls_2pc_core::prf) and the circuits, kept symbolic: a    *)
(* core value records its type state, the outer hash state it was given    *)
(* and the payload it absorbed last; outputs name what they were computed  *)
(* from: a message of the core names the outer hash state the core worked  *)
(* with and the message it answers.                                        *)
(***************************************************************************)
NoState == [circuit |-> "none"]
CoreNew == [state |-> "Ms1", outer |-> NoState, last |-> "none"]
CoreNext(c, state, outer, payload) ==
    [state |-> state, outer |-> outer, last |-> payload]
CoreOut(tag, outer, payload) == [out |-> tag, with |-> outer, of |-> payload]
CoreP2(c) == [p2 |-> c.last]
CircuitOut(name, inputs) == [circuit |-> name, inputs |-> inputs]
GcCall(name, inputs, ok) == [circuit |-> name, inputs |-> inputs, ok |-> ok]

(***************************************************************************)
(* The driver that runs at each position.                                  *)
(***************************************************************************)
SessionKeysPcs == {"c1", "recv_Ms1", "send_Ms1", "recv_Ms2", "send_Ms2", "recv_Ms3",
                   "c2", "recv_Ke1", "send_Ke1", "recv_Ke2", "send_Ke2", "c3"}
ClientFinishedPcs == {"recv_Cf1", "send_Cf1", "recv_Cf2", "send_Cf2"}
ServerFinishedPcs == {"recv_Sf1", "send_Sf1", "recv_Sf2", "send_Sf2"}
Method(p) ==
    IF p \in SessionKeysPcs THEN "compute_session_keys"
    ELSE IF p \in ClientFinishedPcs THEN "compute_client_finished"
    ELSE IF p \in ServerFinishedPcs THEN "compute_server_finished"
    ELSE "none"

\* The follower value (and with it the channel and gc_exec) still exists.
FollowerAlive == held # "None" \/ pc # "idle"

InitFollower ==
    /\ held = "MasterSecret"
    /\ pc = "idle"
    /\ secret_share = "none"
    /\ outer_hash_state = NoState
    /\ core = CoreNew
    /\ msg = "none"
    /\ result = NoResult
    /\ inbox = <<>>
    /\ closed = FALSE
    /\ wire = <<>>
    /\ received = <<>>
    /\ gc_log = <<>>
    /\ calls = <<>>

(***************************************************************************)
(* The leader's end of the channel: it may send any PRFMessage, in any     *)
(* order, and may close the channel.                                       *)
(***************************************************************************)
LeaderSend ==
    /\ FollowerAlive
    /\ ~closed
    /\ Len(inbox) < MaxInFlight
    /\ \E m \in InboundMessages : inbox' = Append(inbox, m)
    /\ UNCHANGED <<held, pc, secret_share, outer_hash_state, core, msg, result,
                   closed, wire, received, gc_log, calls>>
    /\ UNCHANGED notary_vars

LeaderClose ==
    /\ FollowerAlive
    /\ ~closed
    /\ closed' = TRUE
    /\ UNCHANGED <<held, pc, secret_share, outer_hash_state, core, msg, result,
                   inbox, wire, received, gc_log, calls>>
    /\ UNCHANGED notary_vars

\* The outer hash state the core works with at a receive point: the argument
\* of next at Ms1 (line 61), the one the core carries at every later one.
OuterAt(here) == IF here = "recv_Ms1" THEN outer_hash_state ELSE core.outer

\* Recv as it would be with a timeout: when nothing has arrived and the
\* channel is open, the method may give up.
RecvTimesOut(here, expected, state, reply, next) ==
    /\ pc = here
    /\ \/ /\ inbox # <<>>
          /\ Head(inbox).tag = expected
          /\ inbox' = Tail(inbox)
          /\ received' = Append(received, Head(inbox))
          /\ core' = CoreNext(core, state, OuterAt(here), Head(inbox).payload)
          /\ msg' = IF reply = "none" THEN msg
                    ELSE CoreOut(reply, OuterAt(here), Head(inbox).payload)
          /\ pc' = next
          /\ UNCHANGED <<result>>
       \/ /\ inbox # <<>>
          /\ Head(inbox).tag # expected
          /\ inbox' = Tail(inbox)
          /\ received' = Append(received, Head(inbox))
          /\ result' = Err(Method(here), UnexpectedMessage(Head(inbox)), "unexpected")
          /\ pc' = "idle"
          /\ UNCHANGED <<core, msg>>
       \/ /\ inbox = <<>>
          /\ closed
          /\ result' = Err(Method(here), StreamClosed, "eos")
          /\ pc' = "idle"
          /\ UNCHANGED <<inbox, received, core, msg>>
       \/ /\ inbox = <<>>
          /\ ~closed
          /\ result' = Err(Method(here), StreamClosed, "eos")
          /\ pc' = "idle"
          /\ UNCHANGED <<inbox, received, core, msg>>
    /\ UNCHANGED <<held, secret_share, outer_hash_state, closed, wire, gc_log, calls>>
    /\ UNCHANGED notary_vars

\* the end-of-stream arm as it would be if it did not return
RecvIgnoresClose(here, expected, state, reply, next) ==
    /\ pc = here
    /\ \/ /\ inbox # <<>>
          /\ Head(inbox).tag = expected
          /\ inbox' = Tail(inbox)
          /\ received' = Append(received, Head(inbox))
          /\ core' = CoreNext(core, state, OuterAt(here), Head(inbox).payload)
          /\ msg' = IF reply = "none" THEN msg
                    ELSE CoreOut(reply, OuterAt(here), Head(inbox).payload)
          /\ pc' = next
          /\ UNCHANGED <<result>>
       \/ /\ inbox # <<>>
          /\ Head(inbox).tag # expected
          /\ inbox' = Tail(inbox)
          /\ received' = Append(received, Head(inbox))
          /\ result' = Err(Method(here), UnexpectedMessage(Head(inbox)), "unexpected")
          /\ pc' = "idle"
          /\ UNCHANGED <<core, msg>>
       \/ /\ inbox = <<>>
          /\ closed
          /\ result' = Err(Method(here), StreamClosed, "eos")
          /\ pc' = next
          /\ UNCHANGED <<inbox, received, core, msg>>
    /\ UNCHANGED <<held, secret_share, outer_hash_state, closed, wire, gc_log, calls>>
    /\ UNCHANGED notary_vars

\* Recv as it would be if a message with another tag were dropped and the
\* follower kept waiting for the expected one.
RecvSkipsUnexpected(here, expected, state, reply, next) ==
    /\ pc = here
    /\ \/ /\ inbox # <<>>
          /\ Head(inbox).tag = expected
          /\ inbox' = Tail(inbox)
          /\ received' = Append(received, Head(inbox))
          /\ core' = CoreNext(core, state, OuterAt(here), Head(inbox).payload)
          /\ msg' = IF reply = "none" THEN msg
                    ELSE CoreOut(reply, OuterAt(here), Head(inbox).payload)
          /\ pc' = next
          /\ UNCHANGED <<result>>
       \/ /\ inbox # <<>>
          /\ Head(inbox).tag # expected
          /\ inbox' = Tail(inbox)
          /\ received' = Append(received, Head(inbox))
          /\ UNCHANGED <<result, pc, core, msg>>
       \/ /\ inbox = <<>>
          /\ closed
          /\ result' = Err(Method(here), StreamClosed, "eos")
          /\ pc' = "idle"
          /\ UNCHANGED <<inbox, received, core, msg>>
    /\ UNCHANGED <<held, secret_share, outer_hash_state, closed, wire, gc_log, calls>>
    /\ UNCHANGED notary_vars

(***************************************************************************)
(* match self.channel.next().await { Some(expected) => .., Some(m) =>      *)
(* return Err(UnexpectedMessage(m)), None => return Err(..) }, followed by *)
(* the core transition on the message received.  `state` is the core state *)
(* after the transition, `reply` the tag of the follower message the core  *)
(* produces ("none" for Ms3), `next` the position after it.                *)
(***************************************************************************)
Recv(here, expected, state, reply, next) ==
    /\ pc = here
    /\ \/ /\ inbox # <<>>
          /\ Head(inbox).tag = expected
          /\ inbox' = Tail(inbox)
          /\ received' = Append(received, Head(inbox))
          /\ core' = CoreNext(core, state, OuterAt(here), Head(inbox).payload)
          /\ msg' = IF reply = "none" THEN msg
                    ELSE CoreOut(reply, OuterAt(here), Head(inbox).payload)
          /\ pc' = next
          /\ UNCHANGED <<result>>
       \/ /\ inbox # <<>>
          /\ Head(inbox).tag # expected
          /\ inbox' = Tail(inbox)
          /\ received' = Append(received, Head(inbox))
          /\ result' = Err(Method(here), UnexpectedMessage(Head(inbox)), "unexpected")
          /\ pc' = "idle"
          /\ UNCHANGED <<core, msg>>
       \/ /\ inbox = <<>>
          /\ closed
          /\ result' = Err(Method(here), StreamClosed, "eos")
          /\ pc' = "idle"
          /\ UNCHANGED <<inbox, received, core, msg>>
    /\ UNCHANGED <<held, secret_share, outer_hash_state, closed, wire, gc_log, calls>>
    /\ UNCHANGED notary_vars

\* Send as it would be if the driver handed the outer hash state to send()
\* in place of the core's message.
SendOuterHashState(here, tag, next) ==
    /\ pc = here
    /\ \/ /\ wire' = Append(wire, PRFMessage(tag, outer_hash_state))
          /\ pc' = next
          /\ UNCHANGED <<result>>
       \/ /\ \E e \in TransportErrors :
                result' = Err(Method(here), PRFErrorFromIo(e), "send")
          /\ pc' = "idle"
          /\ UNCHANGED <<wire>>
    /\ UNCHANGED <<held, secret_share, outer_hash_state, core, msg, inbox, closed,
                   received, gc_log, calls>>
    /\ UNCHANGED notary_vars

\* Send as it would be if the result of send() were dropped instead of
\* propagated with `?`.
SendIgnoresFailure(here, tag, next) ==
    /\ pc = here
    /\ \/ /\ wire' = Append(wire, PRFMessage(tag, msg))
          /\ pc' = next
          /\ UNCHANGED <<result>>
       \/ /\ pc' = next
          /\ UNCHANGED <<wire, result>>
    /\ UNCHANGED <<held, secret_share, outer_hash_state, core, msg, inbox, closed,
                   received, gc_log, calls>>
    /\ UNCHANGED notary_vars

\* Send as it would be if a failed send were reported and then attempted
\* again.
SendRetrying(here, tag, next) ==
    /\ pc = here
    /\ \/ /\ wire' = Append(wire, PRFMessage(tag, msg))
          /\ pc' = next
          /\ UNCHANGED <<result>>
       \/ /\ \E e \in TransportErrors :
                result' = Err(Method(here), PRFErrorFromIo(e), "send")
          /\ pc' = here
          /\ UNCHANGED <<wire>>
    /\ UNCHANGED <<held, secret_share, outer_hash_state, core, msg, inbox, closed,
                   received, gc_log, calls>>
    /\ UNCHANGED notary_vars

(***************************************************************************)
(* self.channel.send(PRFMessage::Follower..(msg)).await?                   *)
(***************************************************************************)
Send(here, tag, next) ==
    /\ pc = here
    /\ \/ /\ wire' = Append(wire, PRFMessage(tag, msg))
          /\ pc' = next
          /\ UNCHANGED <<result>>
       \/ /\ \E e \in TransportErrors :
                result' = Err(Method(here), PRFErrorFromIo(e), "send")
          /\ pc' = "idle"
          /\ UNCHANGED <<wire>>
    /\ UNCHANGED <<held, secret_share, outer_hash_state, core, msg, inbox, closed,
                   received, gc_log, calls>>
    /\ UNCHANGED notary_vars

(***************************************************************************)
(* The last send of compute_client_finished and compute_server_finished:   *)
(* when it succeeds the method returns Ok, handing the caller the follower *)
(* in the next phase (`next_held`; "None" after compute_server_finished,   *)
(* which returns Ok(()) and drops the follower).                           *)
(***************************************************************************)
SendLast(here, tag, next_held) ==
    /\ pc = here
    /\ \/ /\ wire' = Append(wire, PRFMessage(tag, msg))
          /\ held' = next_held
          /\ result' = Ok(Method(here), next_held)
       \/ /\ \E e \in TransportErrors :
                result' = Err(Method(here), PRFErrorFromIo(e), "send")
          /\ UNCHANGED <<wire, held>>
    /\ pc' = "idle"
    /\ UNCHANGED <<secret_share, outer_hash_state, core, msg, inbox, closed,
                   received, gc_log, calls>>
    /\ UNCHANGED notary_vars

\* Call as it would be if the driver methods borrowed the follower (&mut self)
\* instead of taking it by value: the caller keeps the value it called on.
CallBorrowing(method, phase, first) ==
    /\ pc = "idle"
    /\ held = phase
    /\ held' = held
    /\ pc' = first
    /\ calls' = Append(calls, method)
    /\ result' = NoResult

(***************************************************************************)
(* A driver method takes `self` by value: the call moves the follower out  *)
(* of the caller's hands.                                                  *)
(***************************************************************************)
Call(method, phase, first) ==
    /\ pc = "idle"
    /\ held = phase
    /\ held' = "None"
    /\ pc' = first
    /\ calls' = Append(calls, method)
    /\ result' = NoResult

\* compute_session_keys as it would be if it began with the receive of
\* LeaderMs1, without having run c1
compute_session_keys_without_c1 ==
    /\ Call("compute_session_keys", "MasterSecret", "recv_Ms1")
    /\ \E s \in SecretShares : secret_share' = s
    /\ UNCHANGED <<outer_hash_state, core, msg, inbox, closed, wire, received, gc_log>>
    /\ UNCHANGED notary_vars

compute_session_keys ==
    /\ Call("compute_session_keys", "MasterSecret", "c1")
    /\ \E s \in SecretShares : secret_share' = s
    /\ UNCHANGED <<outer_hash_state, core, msg, inbox, closed, wire, received, gc_log>>
    /\ UNCHANGED notary_vars

compute_client_finished ==
    /\ Call("compute_client_finished", "ClientFinished", "recv_Cf1")
    /\ UNCHANGED <<secret_share, outer_hash_state, core, msg, inbox, closed, wire,
                   received, gc_log>>
    /\ UNCHANGED notary_vars

compute_server_finished ==
    /\ Call("compute_server_finished", "ServerFinished", "recv_Sf1")
    /\ UNCHANGED <<secret_share, outer_hash_state, core, msg, inbox, closed, wire,
                   received, gc_log>>
    /\ UNCHANGED notary_vars

(***************************************************************************)
(* The circuits of compute_session_keys.                                   *)
(***************************************************************************)
\* CircuitFails as it would be if the circuit's error were dropped instead of
\* propagated with `?`: the method carries on.
CircuitFailureIgnored(name, inputs) ==
    /\ gc_log' = Append(gc_log, GcCall(name, inputs, FALSE))
    /\ result' = result
    /\ pc' = IF name = "c1" THEN "recv_Ms1" ELSE IF name = "c2" THEN "recv_Ke1" ELSE "idle"

\* lines 48, 94, 126: the `?` on a circuit's result returns the error
CircuitFails(name, inputs) ==
    /\ gc_log' = Append(gc_log, GcCall(name, inputs, FALSE))
    /\ result' = Err("compute_session_keys", PRFErrorFromGC(name), "circuit")
    /\ pc' = "idle"

\* line 48: circuits::follower_c1(&mut self.gc_exec, secret_share).await?
follower_c1 ==
    /\ pc = "c1"
    /\ \/ /\ gc_log' = Append(gc_log, GcCall("c1", <<secret_share>>, TRUE))
          /\ outer_hash_state' = CircuitOut("c1", <<secret_share>>)
          /\ pc' = "recv_Ms1"
          /\ UNCHANGED <<result>>
       \/ /\ CircuitFails("c1", <<secret_share>>)
          /\ UNCHANGED <<outer_hash_state>>
    /\ UNCHANGED <<held, secret_share, core, msg, inbox, closed, wire, received, calls>>
    /\ UNCHANGED notary_vars

\* follower_c2 as it would be if its output went to the core only and the
\* variable read at line 126 still held the output of c1
follower_c2_keeps_v1 ==
    /\ pc = "c2"
    /\ LET inputs == <<outer_hash_state, CoreP2(core)>> IN
       \/ /\ gc_log' = Append(gc_log, GcCall("c2", inputs, TRUE))
          /\ outer_hash_state' = outer_hash_state
          /\ core' = [core EXCEPT !.state = "Ke1", !.outer = CircuitOut("c2", inputs)]
          /\ pc' = "recv_Ke1"
          /\ UNCHANGED <<result>>
       \/ /\ CircuitFails("c2", inputs)
          /\ UNCHANGED <<outer_hash_state, core>>
    /\ UNCHANGED <<held, secret_share, msg, inbox, closed, wire, received, calls>>
    /\ UNCHANGED notary_vars

\* lines 92-96: p2 = core.p2(); follower_c2(.., outer_hash_state, p2).await?;
\* core.next().next(outer_hash_state)
follower_c2 ==
    /\ pc = "c2"
    /\ LET inputs == <<outer_hash_state, CoreP2(core)>> IN
       \/ /\ gc_log' = Append(gc_log, GcCall("c2", inputs, TRUE))
          /\ outer_hash_state' = CircuitOut("c2", inputs)
          /\ core' = [core EXCEPT !.state = "Ke1", !.outer = CircuitOut("c2", inputs)]
          /\ pc' = "recv_Ke1"
          /\ UNCHANGED <<result>>
       \/ /\ CircuitFails("c2", inputs)
          /\ UNCHANGED <<outer_hash_state, core>>
    /\ UNCHANGED <<held, secret_share, msg, inbox, closed, wire, received, calls>>
    /\ UNCHANGED notary_vars

\* lines 126-135: follower_c3(.., outer_hash_state).await?; Ok((session_keys, ..))
follower_c3 ==
    /\ pc = "c3"
    /\ \/ /\ gc_log' = Append(gc_log, GcCall("c3", <<outer_hash_state>>, TRUE))
          /\ result' = Ok("compute_session_keys", CircuitOut("c3", <<outer_hash_state>>))
          /\ held' = "ClientFinished"
          /\ pc' = "idle"
       \/ /\ CircuitFails("c3", <<outer_hash_state>>)
          /\ UNCHANGED <<held>>
    /\ UNCHANGED <<secret_share, outer_hash_state, core, msg, inbox, closed, wire,
                   received, calls>>
    /\ UNCHANGED notary_vars

(***************************************************************************)
(* The message steps, in program order.                                    *)
(***************************************************************************)
\* lines 50-61; the core folds outer_hash_state in at the transition from Ms1
recv_Ms1 == Recv("recv_Ms1", "LeaderMs1", "Ms2", "FollowerMs1", "send_Ms1")
send_Ms1 == Send("send_Ms1", "FollowerMs1", "recv_Ms2")
\* recv_Ms2 going on to the receive of LeaderMs3 without the send of the reply
recv_Ms2_without_reply == Recv("recv_Ms2", "LeaderMs2", "Ms3", "FollowerMs2", "recv_Ms3")
recv_Ms2 == Recv("recv_Ms2", "LeaderMs2", "Ms3", "FollowerMs2", "send_Ms2")
send_Ms2 == Send("send_Ms2", "FollowerMs2", "recv_Ms3")
recv_Ms3 == Recv("recv_Ms3", "LeaderMs3", "P2", "none", "c2")
recv_Ke1 == Recv("recv_Ke1", "LeaderKe1", "Ke2", "FollowerKe1", "send_Ke1")
\* send_Ke1 with the tag of the next reply
send_Ke1_as_Ke2 == Send("send_Ke1", "FollowerKe2", "recv_Ke2")
send_Ke1 == Send("send_Ke1", "FollowerKe1", "recv_Ke2")
recv_Ke2 == Recv("recv_Ke2", "LeaderKe2", "Cf1", "FollowerKe2", "send_Ke2")
send_Ke2 == Send("send_Ke2", "FollowerKe2", "c3")
recv_Cf1 == Recv("recv_Cf1", "LeaderCf1", "Cf2", "FollowerCf1", "send_Cf1")
send_Cf1 == Send("send_Cf1", "FollowerCf1", "recv_Cf2")
recv_Cf2 == Recv("recv_Cf2", "LeaderCf2", "Sf1", "FollowerCf2", "send_Cf2")
send_Cf2 == SendLast("send_Cf2", "FollowerCf2", "ServerFinished")
recv_Sf1 == Recv("recv_Sf1", "LeaderSf1", "Sf2", "FollowerSf1", "send_Sf1")
send_Sf1 == Send("send_Sf1", "FollowerSf1", "recv_Sf2")
recv_Sf2 == Recv("recv_Sf2", "LeaderSf2", "Done", "FollowerSf2", "send_Sf2")
send_Sf2 == SendLast("send_Sf2", "FollowerSf2", "None")

FollowerNext ==
    \/ LeaderSend
    \/ LeaderClose
    \/ compute_session_keys
    \/ follower_c1
    \/ recv_Ms1
    \/ send_Ms1
    \/ recv_Ms2
    \/ send_Ms2
    \/ recv_Ms3
    \/ follower_c2
    \/ recv_Ke1
    \/ send_Ke1
    \/ recv_Ke2
    \/ send_Ke2
    \/ follower_c3
    \/ compute_client_finished
    \/ recv_Cf1
    \/ send_Cf1
    \/ recv_Cf2
    \/ send_Cf2
    \/ compute_server_finished
    \/ recv_Sf1
    \/ send_Sf1
    \/ recv_Sf2
    \/ send_Sf2

(***************************************************************************)
(* Notary server.  Option<T> is a set with at most one element; usize is a *)
(* machine word of WordBits bits.                                          *)
(***************************************************************************)
None == {}
Some(v) == {v}
is_some(o) == o # {}
unwrap_or_default(o) == IF o = {} THEN 0 ELSE CHOOSE v \in o : TRUE

WordModulus == 2 ^ WordBits
Word == 0 .. (WordModulus - 1)
OptionWord == {None} \cup {Some(w) : w \in Word}

SessionIds == 1 .. MaxSessions
Requests == 1 .. MaxUpgrades
Messages == {"message"}
OptionMessage == {None} \cup {Some(m) : m \in Messages}

\* NotarizationSessionRequest (notary.rs 21-29) as the Json extractor hands it
\* over; Malformed is the JsonRejection.  client_type is never read.
SessionRequest(sent, recv, message) ==
    [ok |-> TRUE, max_sent_data |-> sent, max_recv_data |-> recv, message |-> message]
Malformed == [ok |-> FALSE]

\* SessionData (notary.rs 50-55); created_at is never read.
SessionData(sent, recv, message) ==
    [max_sent_data |-> sent, max_recv_data |-> recv, message |-> message]

BadProverRequest(text) == [status |-> "BadProverRequest", text |-> text]
SessionResponse(id) == [status |-> "OK", session_id |-> id]
Panicked == [status |-> "panic"]
ThresholdExceeded ==
    BadProverRequest("Max transcript size requested exceeds the maximum threshold")
DoesNotExist(id) == BadProverRequest(<<"Session id", id, "does not exist">>)

(***************************************************************************)
(* `a + b` on usize (service.rs 137): the mathematical sum when it fits;   *)
(* otherwise a panic when the build checks overflow, the wrapped sum when  *)
(* it does not.                                                            *)
(***************************************************************************)
Overflows(a, b) == a + b >= WordModulus
WrappingAdd(a, b) == (a + b) % WordModulus

\* the size check as it would be with `&&` for `||` at line 135: run only when
\* both sizes are given
TranscriptSizeCheckWhenBothGiven(req) ==
    IF is_some(req.max_sent_data) /\ is_some(req.max_recv_data)
    THEN LET a == unwrap_or_default(req.max_sent_data)
             b == unwrap_or_default(req.max_recv_data)
         IN  IF Overflows(a, b) /\ overflow_checks THEN "panic"
             ELSE IF WrappingAdd(a, b) > max_transcript_size THEN "reject"
             ELSE "pass"
    ELSE "pass"

\* lines 135-148: the outcome of the size check, "pass", "reject" or "panic"
TranscriptSizeCheck(req) ==
    IF is_some(req.max_sent_data) \/ is_some(req.max_recv_data)
    THEN LET a == unwrap_or_default(req.max_sent_data)
             b == unwrap_or_default(req.max_recv_data)
         IN  IF Overflows(a, b) /\ overflow_checks THEN "panic"
             ELSE IF WrappingAdd(a, b) > max_transcript_size THEN "reject"
             ELSE "pass"
    ELSE "pass"

NoLog == [request |-> Malformed, response |-> [status |-> "none"]]
IdleRequest == [pc |-> "idle"]

InitNotary ==
    /\ store = <<>>
    /\ issued = <<>>
    /\ upg = [r \in Requests |-> IdleRequest]
    /\ init_log = NoLog
    /\ max_transcript_size \in Word
    /\ overflow_checks \in BOOLEAN

\* f with key k bound to v / with key k removed
Insert(f, k, v) == [x \in DOMAIN f \cup {k} |-> IF x = k THEN v ELSE f[x]]
Remove(f, k) == [x \in DOMAIN f \ {k} |-> f[x]]

(***************************************************************************)
(* Uuid::new_v4() (line 150): an id no earlier call has returned.  Ids are *)
(* interchangeable, so the model hands them out in increasing order.       *)
(***************************************************************************)
\* new_v4 as it would be if it could return an id it has returned before
new_v4_repeating == SessionIds

new_v4 ==
    {id \in SessionIds : id \notin DOMAIN issued /\ \A j \in 1 .. (id - 1) : j \in DOMAIN issued}

\* initialize as it would be if the entry were stored before the size check
initialize_stores_first(req) ==
    /\ IF ~req.ok
       THEN /\ init_log' = [request |-> req, response |-> BadProverRequest("rejection")]
            /\ UNCHANGED <<store, issued>>
       ELSE \E prover_session_id \in new_v4 :
              LET data == SessionData(req.max_sent_data, req.max_recv_data, req.message)
              IN  /\ store' = Insert(store, prover_session_id, data)
                  /\ issued' = Insert(issued, prover_session_id, data)
                  /\ init_log' =
                        [request |-> req,
                         response |-> IF TranscriptSizeCheck(req) = "panic" THEN Panicked
                                      ELSE IF TranscriptSizeCheck(req) = "reject"
                                      THEN ThresholdExceeded
                                      ELSE SessionResponse(prover_session_id)]
    /\ UNCHANGED <<upg, max_transcript_size, overflow_checks>>
    /\ UNCHANGED follower_vars

(***************************************************************************)
(* initialize (service.rs 116-173): the /session handler.  It has no await *)
(* and touches the store once, so it is one step.                          *)
(***************************************************************************)
initialize(req) ==
    /\ IF ~req.ok
       THEN /\ init_log' = [request |-> req, response |-> BadProverRequest("rejection")]
            /\ UNCHANGED <<store, issued>>
       ELSE IF TranscriptSizeCheck(req) = "panic"
       THEN /\ init_log' = [request |-> req, response |-> Panicked]
            /\ UNCHANGED <<store, issued>>
       ELSE IF TranscriptSizeCheck(req) = "reject"
       THEN /\ init_log' = [request |-> req, response |-> ThresholdExceeded]
            /\ UNCHANGED <<store, issued>>
       ELSE \E prover_session_id \in new_v4 :
              LET data == SessionData(req.max_sent_data, req.max_recv_data, req.message)
              IN  /\ store' = Insert(store, prover_session_id, data)
                  /\ issued' = Insert(issued, prover_session_id, data)
                  /\ init_log' = [request |-> req,
                                  response |-> SessionResponse(prover_session_id)]
    /\ UNCHANGED <<upg, max_transcript_size, overflow_checks>>
    /\ UNCHANGED follower_vars

(***************************************************************************)
(* A /notarize request.  The extractors run first (FromRequestParts for    *)
(* ProtocolUpgrade, lines 47-65, and Query): a request without an Upgrade  *)
(* header is rejected before the handler runs; with one, the websocket and *)
(* the tcp upgrade end in the same call of notary_service (lines 90-111),  *)
(* so which of the two it is is not kept.  Requests are numbered in        *)
(* the order they arrive; arrived_while_stored is history, it records that *)
(* the session's entry existed when the request arrived.                   *)
(***************************************************************************)
UpgradeHeaders == {"websocket", "tcp", "none"}

from_request_parts(r, header, session_id) ==
    /\ upg[r].pc = "idle"
    /\ \A earlier \in 1 .. (r - 1) : upg[earlier].pc # "idle"
    /\ upg' = [upg EXCEPT ![r] =
                 IF header = "none"
                 THEN [pc |-> "responded",
                       response |-> BadProverRequest("Upgrade header is not set for client")]
                 ELSE [pc |-> "extracted", session_id |-> session_id,
                       arrived_while_stored |-> session_id \in DOMAIN store]]
    /\ UNCHANGED <<store, issued, init_log, max_transcript_size, overflow_checks>>
    /\ UNCHANGED follower_vars

\* upgrade_protocol as it would be if it read the entry (get) and left it in
\* the store
upgrade_protocol_keeps_entry(r) ==
    /\ upg[r].pc = "extracted"
    /\ LET session_id == upg[r].session_id IN
       IF session_id \in DOMAIN store
       THEN /\ upg' = [upg EXCEPT ![r] =
                         [pc |-> "upgrading", session_id |-> session_id,
                          max_sent_data |-> store[session_id].max_sent_data,
                          max_recv_data |-> store[session_id].max_recv_data,
                          message |-> store[session_id].message]]
       ELSE /\ upg' = [upg EXCEPT ![r] =
                         [pc |-> "responded", session_id |-> session_id,
                          arrived_while_stored |-> upg[r].arrived_while_stored,
                          response |-> DoesNotExist(session_id)]]
    /\ UNCHANGED <<store, issued, init_log, max_transcript_size, overflow_checks>>
    /\ UNCHANGED follower_vars

\* upgrade_protocol as it would be if it emptied the store (drain) and kept
\* the entry asked for
upgrade_protocol_drains_store(r) ==
    /\ upg[r].pc = "extracted"
    /\ LET session_id == upg[r].session_id IN
       IF session_id \in DOMAIN store
       THEN /\ store' = <<>>
            /\ upg' = [upg EXCEPT ![r] =
                         [pc |-> "upgrading", session_id |-> session_id,
                          max_sent_data |-> store[session_id].max_sent_data,
                          max_recv_data |-> store[session_id].max_recv_data,
                          message |-> store[session_id].message]]
       ELSE /\ upg' = [upg EXCEPT ![r] =
                         [pc |-> "responded", session_id |-> session_id,
                          arrived_while_stored |-> upg[r].arrived_while_stored,
                          response |-> DoesNotExist(session_id)]]
            /\ UNCHANGED store
    /\ UNCHANGED <<issued, init_log, max_transcript_size, overflow_checks>>
    /\ UNCHANGED follower_vars

(***************************************************************************)
(* upgrade_protocol (service.rs 71-112): store.lock().unwrap().remove(id)  *)
(* looks the entry up and removes it while the mutex guard is held; Some   *)
(* hands the data to the on_upgrade callback, None returns                 *)
(* BadProverRequest.                                                       *)
(***************************************************************************)
upgrade_protocol(r) ==
    /\ upg[r].pc = "extracted"
    /\ LET session_id == upg[r].session_id IN
       IF session_id \in DOMAIN store
       THEN /\ store' = Remove(store, session_id)
            /\ upg' = [upg EXCEPT ![r] =
                         [pc |-> "upgrading", session_id |-> session_id,
                          max_sent_data |-> store[session_id].max_sent_data,
                          max_recv_data |-> store[session_id].max_recv_data,
                          message |-> store[session_id].message]]
       ELSE /\ upg' = [upg EXCEPT ![r] =
                         [pc |-> "responded", session_id |-> session_id,
                          arrived_while_stored |-> upg[r].arrived_while_stored,
                          response |-> DoesNotExist(session_id)]]
            /\ UNCHANGED store
    /\ UNCHANGED <<issued, init_log, max_transcript_size, overflow_checks>>
    /\ UNCHANGED follower_vars

(***************************************************************************)
(* notary_service (service.rs 176-206), run by the on_upgrade callback     *)
(* (websocket_notarize / tcp_notarize) once the connection is upgraded.    *)
(* message.unwrap() panics on None; build() and notarize() belong to the   *)
(* verifier and may each fail.                                             *)
(***************************************************************************)
VerifierOutcomes == {"Ok", "ConfigError", "NotarizeError"}

\* notary_service as it would be if a failed notarization put the session's
\* entry back into the store
notary_service_restoring(r) ==
    /\ upg[r].pc = "upgrading"
    /\ \E outcome \in VerifierOutcomes :
          /\ upg' = [upg EXCEPT ![r] =
                       [pc |-> "finished", session_id |-> upg[r].session_id,
                        outcome |-> IF ~is_some(upg[r].message) THEN "panic" ELSE outcome]]
          /\ store' = IF is_some(upg[r].message) /\ outcome = "Ok"
                      THEN store
                      ELSE Insert(store, upg[r].session_id, issued[upg[r].session_id])
    /\ UNCHANGED <<issued, init_log, max_transcript_size, overflow_checks>>
    /\ UNCHANGED follower_vars

notary_service(r) ==
    /\ upg[r].pc = "upgrading"
    /\ \E outcome \in VerifierOutcomes :
          upg' = [upg EXCEPT ![r] =
                    [pc |-> "finished", session_id |-> upg[r].session_id,
                     outcome |-> IF ~is_some(upg[r].message) THEN "panic" ELSE outcome]]
    /\ UNCHANGED <<store, issued, init_log, max_transcript_size, overflow_checks>>
    /\ UNCHANGED follower_vars

(***************************************************************************)
(* Requests the prover side may make.                                      *)
(***************************************************************************)
\* a malformed body; no size given; one size given, without and with a
\* message; both given
SmallRequests ==
    {Malformed,
     SessionRequest(None, None, Some("message")),
     SessionRequest(Some(1), None, None),
     SessionRequest(None, Some(1), Some("message")),
     SessionRequest(Some(1), Some(1), Some("message"))}
\* every pair of sizes a machine word can hold
WordRequests ==
    {SessionRequest(a, b, Some("message")) : a \in OptionWord, b \in OptionWord}

Session == \E req \in SmallRequests : initialize(req)
SessionAnySize == \E req \in WordRequests : store = <<>> /\ initialize(req)
NotarizeRequest ==
    \E r \in Requests, h \in UpgradeHeaders, id \in SessionIds :
        from_request_parts(r, h, id)
Notarize == \E r \in Requests : upgrade_protocol(r)
NotaryService == \E r \in Requests : notary_service(r)

NotaryNext ==
    \/ Session
    \/ NotarizeRequest
    \/ Notarize
    \/ NotaryService

CeilingNext ==
    \/ SessionAnySize

(***************************************************************************)
(* Specifications.                                                         *)
(***************************************************************************)
InitNotaryIdle ==
    /\ store = <<>>
    /\ issued = <<>>
    /\ upg = [r \in Requests |-> IdleRequest]
    /\ init_log = NoLog
    /\ max_transcript_size = 1
    /\ overflow_checks = TRUE

Init == InitFollower /\ InitNotaryIdle
Next == FollowerNext
Spec == Init /\ [][Next]_vars

\* The sizes of SmallRequests never leave the word, so the build profile makes
\* no difference to this specification.
InitServer ==
    InitFollower /\ InitNotary /\ max_transcript_size \in {0, 1} /\ ~overflow_checks
SpecNotary == InitServer /\ [][NotaryNext]_vars

InitCeiling == InitFollower /\ InitNotary
SpecCeiling == InitCeiling /\ [][CeilingNext]_vars

(***************************************************************************)
(* The follower under fair scheduling: a step of the follower that can be  *)
(* taken (an await that is ready, the caller's next call) is taken, and    *)
(* the leader's end of an open channel eventually sends or closes.         *)
(***************************************************************************)
FollowerStep ==
    \/ compute_session_keys
    \/ follower_c1
    \/ recv_Ms1
    \/ send_Ms1
    \/ recv_Ms2
    \/ send_Ms2
    \/ recv_Ms3
    \/ follower_c2
    \/ recv_Ke1
    \/ send_Ke1
    \/ recv_Ke2
    \/ send_Ke2
    \/ follower_c3
    \/ compute_client_finished
    \/ recv_Cf1
    \/ send_Cf1
    \/ recv_Cf2
    \/ send_Cf2
    \/ compute_server_finished
    \/ recv_Sf1
    \/ send_Sf1
    \/ recv_Sf2
    \/ send_Sf2
LeaderStep == LeaderSend \/ LeaderClose
Fairness == WF_vars(FollowerStep) /\ WF_vars(LeaderStep)
SpecLive == Init /\ [][Next]_vars /\ Fairness

(***************************************************************************)
(* Properties of the PRF follower.                                         *)
(***************************************************************************)
ExpectedOrder == <<"LeaderMs1", "LeaderMs2", "LeaderMs3", "LeaderKe1", "LeaderKe2",
                   "LeaderCf1", "LeaderCf2", "LeaderSf1", "LeaderSf2">>
FollowerOrder == <<"FollowerMs1", "FollowerMs2", "FollowerKe1", "FollowerKe2",
                   "FollowerCf1", "FollowerCf2", "FollowerSf1", "FollowerSf2">>
DriverOrder == <<"compute_session_keys", "compute_client_finished",
                 "compute_server_finished">>
\* the driver method that receives the i-th inbound message
DriverOfStep(i) ==
    IF i <= 5 THEN "compute_session_keys"
    ELSE IF i <= 7 THEN "compute_client_finished"
    ELSE "compute_server_finished"
TagsOf(seq) == [i \in 1 .. Len(seq) |-> seq[i].tag]
IsPrefix(a, b) == Len(a) <= Len(b) /\ \A i \in 1 .. Len(a) : a[i] = b[i]
RecvPcs == {"recv_Ms1", "recv_Ms2", "recv_Ms3", "recv_Ke1", "recv_Ke2",
            "recv_Cf1", "recv_Cf2", "recv_Sf1", "recv_Sf2"}
Failed == result.status = "Err"

\* C1: every message the follower consumes before the last one was the one
\* expected at its step; at most nine are consumed; and when the last one
\* consumed is not the one expected at its step, the driver method that
\* received it has returned UnexpectedMessage carrying that very message.
C1_MessageOrdering ==
    LET n == Len(received) IN
    /\ n <= Len(ExpectedOrder)
    /\ \A i \in 1 .. (n - 1) : received[i].tag = ExpectedOrder[i]
    /\ (n >= 1 /\ received[n].tag # ExpectedOrder[n]) =>
          /\ pc = "idle"
          /\ held = "None"
          /\ Failed
          /\ result.method = DriverOfStep(n)
          /\ result.err = UnexpectedMessage(received[n])
    /\ (Failed /\ result.err.variant = "UnexpectedMessage") =>
          /\ n >= 1
          /\ received[n].tag # ExpectedOrder[n]

\* the leader sent Ms1 then Ms3: UnexpectedMessage(LeaderMs3) at the Ms2 step
C1_Witness ==
    /\ Len(received) = 2
    /\ TagsOf(received) = <<"LeaderMs1", "LeaderMs3">>
    /\ Failed
    /\ result.method = "compute_session_keys"
    /\ result.err = UnexpectedMessage(received[2])
    /\ TagsOf(wire) = <<"FollowerMs1">>

RepliesAfter(n) == IF n <= 2 THEN n ELSE n - 1

\* C3: while no driver method has failed, the messages consumed are a prefix
\* of the leader's order and the messages on the wire are the replies to them,
\* in order, each computed by the core from the message it answers, with none
\* for Ms3; compute_session_keys returns the output of c3 together with the
\* follower in ClientFinished; and once FollowerSf2 is on the wire the three
\* methods have run in sequence, each circuit has run once and succeeded, and
\* compute_server_finished has returned Ok.
C3_HappyPath ==
    /\ ~Failed =>
          /\ IsPrefix(TagsOf(received), ExpectedOrder)
          /\ IsPrefix(TagsOf(wire), FollowerOrder)
          /\ Len(wire) \in {RepliesAfter(Len(received)) - 1, RepliesAfter(Len(received))}
          /\ \A i \in 1 .. Len(wire) :
                wire[i].payload =
                    CoreOut(FollowerOrder[i],
                            IF i <= 2 THEN CircuitOut("c1", <<secret_share>>) ELSE core.outer,
                            received[IF i <= 2 THEN i ELSE i + 1].payload)
    /\ (~Failed /\ pc = "idle" /\ calls = <<"compute_session_keys">>) =>
          /\ result.status = "Ok"
          /\ result.value = CircuitOut("c3", <<outer_hash_state>>)
          /\ outer_hash_state.circuit = "c2"
          /\ held = "ClientFinished"
          /\ Len(wire) = 4
    /\ Len(wire) = Len(FollowerOrder) =>
          /\ TagsOf(wire) = FollowerOrder
          /\ TagsOf(received) = ExpectedOrder
          /\ calls = DriverOrder
          /\ [i \in 1 .. Len(gc_log) |-> <<gc_log[i].circuit, gc_log[i].ok>>]
                = <<<<"c1", TRUE>>, <<"c2", TRUE>>, <<"c3", TRUE>>>>
          /\ pc = "idle"
          /\ held = "None"
          /\ result = Ok("compute_server_finished", "None")

C3_Witness ==
    /\ TagsOf(received) = ExpectedOrder
    /\ TagsOf(wire) = FollowerOrder
    /\ result = Ok("compute_server_finished", "None")
    /\ ~FollowerAlive

\* C9: a circuit that fails is the last thing the follower does:
\* compute_session_keys has returned the circuit's error, the caller holds
\* neither session keys nor a follower, and the channel has seen exactly what
\* precedes that circuit in the method: nothing for c1; Ms1, Ms2, Ms3 consumed
\* and FollowerMs1, FollowerMs2 sent (no FollowerKe1) for c2; all five
\* consumed and four sent for c3.
C9_CircuitFailure ==
    \A i \in 1 .. Len(gc_log) :
        ~gc_log[i].ok =>
            /\ i = Len(gc_log)
            /\ gc_log[i].circuit = <<"c1", "c2", "c3">>[i]
            /\ pc = "idle"
            /\ held = "None"
            /\ calls = <<"compute_session_keys">>
            /\ result = Err("compute_session_keys", PRFErrorFromGC(gc_log[i].circuit), "circuit")
            /\ TagsOf(received) = SubSeq(ExpectedOrder, 1, <<0, 3, 5>>[i])
            /\ TagsOf(wire) = SubSeq(FollowerOrder, 1, <<0, 2, 4>>[i])

\* c2 fails after Ms3
C9_Witness ==
    /\ Len(gc_log) = 2
    /\ ~gc_log[2].ok
    /\ result = Err("compute_session_keys", PRFErrorFromGC("c2"), "circuit")
    /\ TagsOf(received) = <<"LeaderMs1", "LeaderMs2", "LeaderMs3">>
    /\ TagsOf(wire) = <<"FollowerMs1", "FollowerMs2">>

(***************************************************************************)
(* The phase of the one follower of a session: the phase of the value the  *)
(* caller holds or a running method owns; Done once compute_server_finished*)
(* has returned Ok; Dropped once a method has returned an error.           *)
(***************************************************************************)
PhaseOfMethod(m) ==
    IF m = "compute_session_keys" THEN "MasterSecret"
    ELSE IF m = "compute_client_finished" THEN "ClientFinished"
    ELSE "ServerFinished"
Phase ==
    IF held # "None" THEN held
    ELSE IF pc # "idle" THEN PhaseOfMethod(Method(pc))
    ELSE IF Failed THEN "Dropped"
    ELSE "Done"
PhaseSteps == {<<"MasterSecret", "ClientFinished">>, <<"ClientFinished", "ServerFinished">>,
               <<"ServerFinished", "Done">>}

\* C10: the phase changes only along MasterSecret -> ClientFinished ->
\* ServerFinished -> Done, or to Dropped when a method fails, and it moves
\* forward exactly when a driver method returns Ok; the methods are called in
\* their order, each at most once; while a method runs and after it has
\* returned, the caller holds no follower in the phase it was called on: it
\* holds nothing, or, after Ok, the follower in the next phase.
C10_Linearity ==
    /\ [](/\ IsPrefix(calls, DriverOrder)
          /\ pc # "idle" => held = "None"
          /\ pc # "idle" => Method(pc) = calls[Len(calls)]
          /\ Failed => held = "None" /\ pc = "idle"
          /\ held # "None" =>
                held = <<"MasterSecret", "ClientFinished", "ServerFinished">>[Len(calls) + 1])
    /\ [][Phase' # Phase =>
            \/ /\ <<Phase, Phase'>> \in PhaseSteps
               /\ result'.status = "Ok"
               /\ result'.method = calls[Len(calls)]
               /\ PhaseOfMethod(result'.method) = Phase
            \/ /\ Phase' = "Dropped"
               /\ result'.status = "Err"]_vars
    /\ [][calls' # calls => (held = PhaseOfMethod(calls'[Len(calls')]) /\ held' = "None")]_vars

C10_Witness ==
    /\ Phase = "Done"
    /\ calls = DriverOrder
    /\ result = Ok("compute_server_finished", "None")

ErrorCauses == {"unexpected", "eos", "send", "circuit"}

\* C11: once a driver method has returned an error, whichever of the four
\* causes it has, the method is over and the caller holds no follower; from
\* then on nothing is received, sent or run on the executor, no driver method
\* is called, the phase stays Dropped, and the step that failed is not taken
\* again, even when a message of the leader is still waiting on the channel.
C11_ErrorsTerminal ==
    /\ [](Failed =>
            /\ result.cause \in ErrorCauses
            /\ pc = "idle"
            /\ held = "None"
            /\ Phase = "Dropped")
    /\ [][Failed => UNCHANGED <<result, pc, held, received, wire, gc_log, calls,
                                inbox, core, msg>>]_vars
    /\ [][(~Failed /\ result'.status = "Err") =>
            /\ result'.method = Method(pc)
            /\ Len(received') + Len(wire') + Len(gc_log')
                  <= Len(received) + Len(wire) + Len(gc_log) + 1]_vars

\* the send of FollowerMs1 failed while LeaderMs2 was already waiting
C11_Witness ==
    /\ Failed
    /\ result.cause = "send"
    /\ TagsOf(received) = <<"LeaderMs1">>
    /\ wire = <<>>
    /\ TagsOf(inbox) = <<"LeaderMs2">>

Range(seq) == {seq[i] : i \in 1 .. Len(seq)}
SendPcs == {"send_Ms1", "send_Ms2", "send_Ke1", "send_Ke2",
            "send_Cf1", "send_Cf2", "send_Sf1", "send_Sf2"}
\* the outer hash states computed so far: the outputs of c1 and of c2
OuterHashStates ==
    {CircuitOut(gc_log[i].circuit, gc_log[i].inputs) :
        i \in {j \in 1 .. Len(gc_log) : gc_log[j].ok /\ gc_log[j].circuit \in {"c1", "c2"}}}
\* v is a message produced by the core, a value of another shape than the
\* secret share and the circuits' outputs
IsCoreMessage(v) == DOMAIN v = DOMAIN CoreOut("tag", NoState, "payload")
IsCircuitOut(v) == DOMAIN v = DOMAIN CircuitOut("name", <<>>)

\* C12: every message on the wire, and the value held for sending at every
\* send, is a message the core produced for that step, never the secret share
\* and never an outer hash state.  The secret share is the input of the first
\* circuit run, c1, and of no other; the outer hash states go to c2 (the
\* output of c1), to c3 (the output of c2) and to the core.
C12_SecretIsolation ==
    /\ [](/\ \A i \in 1 .. Len(wire) :
                /\ IsCoreMessage(wire[i].payload)
                /\ wire[i].payload \notin OuterHashStates
                /\ wire[i].payload.out = wire[i].tag
          /\ pc \in SendPcs => IsCoreMessage(msg) /\ msg \notin OuterHashStates
          /\ \A i \in 1 .. Len(gc_log) :
                /\ i = 1 => gc_log[i].circuit = "c1" /\ gc_log[i].inputs = <<secret_share>>
                /\ i > 1 =>
                      /\ gc_log[i].circuit \in {"c2", "c3"}
                      /\ \A v \in Range(gc_log[i].inputs) :
                            IsCircuitOut(v) =>
                               /\ v \in OuterHashStates
                               /\ v.circuit = IF gc_log[i].circuit = "c2" THEN "c1" ELSE "c2"
                      /\ \A v \in Range(gc_log[i].inputs) :
                            ~IsCircuitOut(v) => gc_log[i].circuit = "c2" /\ DOMAIN v = {"p2"}
          /\ core.outer \in {NoState} \cup OuterHashStates)
    /\ [][wire' # wire =>
            /\ Len(wire') = Len(wire) + 1
            /\ SubSeq(wire', 1, Len(wire)) = wire
            /\ wire'[Len(wire')].payload = msg
            /\ msg = CoreOut(wire'[Len(wire')].tag, core.outer,
                             received[Len(received)].payload)]_vars

\* both outer hash states exist and the four replies of compute_session_keys
\* are on the wire
C12_Witness ==
    /\ pc = "c3"
    /\ Len(wire) = 4
    /\ Cardinality(OuterHashStates) = 2
    /\ outer_hash_state \in OuterHashStates
    /\ secret_share \in SecretShares

\* C13: nothing is consumed from or sent on the channel unless the first
\* circuit run was c1 on the secret share and it succeeded; while c1 is
\* pending the channel is untouched, even with LeaderMs1 waiting; and the
\* step that consumes LeaderMs1 hands the core the output of c1.
C13_C1BeforeExchange ==
    /\ []((received # <<>> \/ wire # <<>>) =>
            /\ Len(gc_log) >= 1
            /\ gc_log[1] = GcCall("c1", <<secret_share>>, TRUE))
    /\ [](pc = "c1" => received = <<>> /\ wire = <<>> /\ gc_log = <<>>)
    /\ []((Len(gc_log) >= 1 /\ ~gc_log[1].ok) => received = <<>> /\ wire = <<>>)
    /\ [][pc = "c1" => received' = received /\ wire' = wire]_vars
    /\ [][(received = <<>> /\ received' # <<>>) =>
            /\ gc_log = <<GcCall("c1", <<secret_share>>, TRUE)>>
            /\ outer_hash_state = CircuitOut("c1", <<secret_share>>)
            /\ received'[1].tag = "LeaderMs1" =>
                  /\ core'.outer = CircuitOut("c1", <<secret_share>>)
                  /\ msg'.with = CircuitOut("c1", <<secret_share>>)]_vars

\* LeaderMs1 has been consumed, after c1
C13_Witness ==
    /\ pc = "send_Ms1"
    /\ TagsOf(received) = <<"LeaderMs1">>
    /\ gc_log = <<GcCall("c1", <<secret_share>>, TRUE)>>
    /\ core.outer = CircuitOut("c1", <<secret_share>>)
    /\ wire = <<>>

CircuitOrder == <<"c1", "c2", "c3">>

\* C14: the circuits run are c1, c2, c3 in this order, each at most once and
\* each only after the one before it succeeded, all while
\* compute_session_keys runs.  c2 is run when exactly Ms1, Ms2, Ms3 have been
\* consumed (so before LeaderKe1 is), on the output of c1 and the p2 of the
\* core that absorbed Ms3; c3 is run when FollowerKe2 is on the wire, on the
\* output of c2; and from c2 on the core, and with it the Ke1 and Ke2
\* replies, work with the output of c2.
C14_CircuitOrder ==
    /\ [](/\ Len(gc_log) <= Len(CircuitOrder)
          /\ \A i \in 1 .. Len(gc_log) : gc_log[i].circuit = CircuitOrder[i]
          /\ \A i \in 1 .. (Len(gc_log) - 1) : gc_log[i].ok
          /\ Len(gc_log) >= 2 =>
                gc_log[2].inputs = <<CircuitOut("c1", gc_log[1].inputs),
                                     [p2 |-> received[3].payload]>>
          /\ Len(gc_log) >= 3 =>
                gc_log[3].inputs = <<CircuitOut("c2", gc_log[2].inputs)>>
          /\ (Len(gc_log) >= 2 /\ gc_log[2].ok) =>
                /\ core.outer = CircuitOut("c2", gc_log[2].inputs)
                /\ \A i \in 3 .. Len(wire) : wire[i].payload.with = core.outer
          /\ Len(received) >= 4 => (Len(gc_log) >= 2 /\ gc_log[2].ok))
    /\ [][gc_log' # gc_log =>
            /\ Len(gc_log') = Len(gc_log) + 1
            /\ SubSeq(gc_log', 1, Len(gc_log)) = gc_log
            /\ Method(pc) = "compute_session_keys"
            /\ calls = <<"compute_session_keys">>
            /\ Len(gc_log') = 2 =>
                  /\ TagsOf(received) = SubSeq(ExpectedOrder, 1, 3)
                  /\ TagsOf(wire) = SubSeq(FollowerOrder, 1, 2)
                  /\ core.state = "P2"
                  /\ gc_log'[2].inputs = <<outer_hash_state, CoreP2(core)>>
            /\ Len(gc_log') = 3 =>
                  /\ TagsOf(received) = SubSeq(ExpectedOrder, 1, 5)
                  /\ TagsOf(wire) = SubSeq(FollowerOrder, 1, 4)
                  /\ gc_log'[3].inputs = <<outer_hash_state>>]_vars

\* the whole run is over: three circuits, all inside compute_session_keys
C14_Witness ==
    /\ calls = DriverOrder
    /\ Phase = "Done"
    /\ Len(wire) = 8
    /\ [i \in 1 .. Len(gc_log) |-> gc_log[i].circuit] = CircuitOrder
    /\ gc_log[3].inputs = <<CircuitOut("c2", gc_log[2].inputs)>>

\* the driver method that sends the i-th follower message
DriverOfReply(i) ==
    IF i <= 4 THEN "compute_session_keys"
    ELSE IF i <= 6 THEN "compute_client_finished"
    ELSE "compute_server_finished"

\* C15: a send step that puts nothing on the wire ends the method with the
\* transport's error, unchanged, inside the error PRFError::from makes of an
\* io error; the method is the one that sends that message, the message is
\* the reply to the last message consumed, and nothing is received, sent or
\* run afterwards.  When the message is FollowerKe2, c3 has not run and never
\* runs, and the result is never Ok.
C15_SendFailure ==
    /\ []((Failed /\ result.cause = "send") =>
            /\ \E e \in TransportErrors : result.err = PRFErrorFromIo(e)
            /\ result.err.io \in TransportErrors
            /\ pc = "idle"
            /\ held = "None"
            /\ Len(wire) < Len(FollowerOrder)
            /\ RepliesAfter(Len(received)) = Len(wire) + 1
            /\ IsPrefix(TagsOf(received), ExpectedOrder)
            /\ result.method = DriverOfReply(Len(wire) + 1)
            /\ Len(wire) = 3 => (Len(gc_log) = 2 /\ \A i \in 1 .. 2 : gc_log[i].circuit # "c3"))
    /\ [][(pc \in SendPcs /\ pc' # pc /\ wire' = wire) =>
            /\ pc' = "idle"
            /\ \E e \in TransportErrors :
                  result' = Err(Method(pc), PRFErrorFromIo(e), "send")
            /\ UNCHANGED <<received, gc_log, held>>]_vars
    /\ [][(Failed /\ result.cause = "send") =>
            UNCHANGED <<result, pc, held, wire, received, gc_log, calls>>]_vars

\* the send of FollowerKe2 failed
C15_Witness ==
    /\ Failed
    /\ result.cause = "send"
    /\ result.method = "compute_session_keys"
    /\ TagsOf(wire) = <<"FollowerMs1", "FollowerMs2", "FollowerKe1">>
    /\ Len(received) = 5
    /\ Len(gc_log) = 2

\* the place in the leader's order of the message the i-th reply answers
LeaderIndex(i) == IF i <= 2 THEN i ELSE i + 1

\* C18: in every reachable state, failed runs included, the wire holds the
\* follower's messages in their order, each once, and each answers a leader
\* message of the same step that had been consumed when it was sent; a
\* message is sent only as the reply to the last message consumed, and a
\* message is consumed only when the replies to all earlier ones (there is
\* none to Ms3) are on the wire.
C18_Alternation ==
    /\ [](/\ IsPrefix(TagsOf(wire), FollowerOrder)
          /\ \A i \in 1 .. Len(wire) :
                /\ Len(received) >= LeaderIndex(i)
                /\ received[LeaderIndex(i)].tag = ExpectedOrder[LeaderIndex(i)]
                /\ wire[i].payload.of = received[LeaderIndex(i)].payload
          /\ Len(received) >= 1 => Len(wire) >= RepliesAfter(Len(received) - 1)
          /\ Len(wire) <= RepliesAfter(Len(received)))
    /\ [][wire' # wire =>
            /\ wire' = Append(wire, wire'[Len(wire')])
            /\ wire'[Len(wire')].tag = FollowerOrder[Len(wire) + 1]
            /\ Len(received) = LeaderIndex(Len(wire) + 1)
            /\ received[Len(received)].tag = ExpectedOrder[Len(received)]
            /\ received' = received]_vars
    /\ [][received' # received =>
            /\ received' = Append(received, Head(inbox))
            /\ Len(wire) = RepliesAfter(Len(received))
            /\ wire' = wire]_vars

\* a run that fails in compute_client_finished: LeaderSf1 arrived where
\* LeaderCf2 was expected
C18_Witness ==
    /\ Failed
    /\ TagsOf(received) = <<"LeaderMs1", "LeaderMs2", "LeaderMs3", "LeaderKe1",
                            "LeaderKe2", "LeaderCf1", "LeaderSf1">>
    /\ TagsOf(wire) = <<"FollowerMs1", "FollowerMs2", "FollowerKe1", "FollowerKe2",
                        "FollowerCf1">>

\* the follower waits at a receive point of an open channel with nothing on
\* it
Waiting == pc \in RecvPcs /\ inbox = <<>> /\ ~closed
\* the session is over: Done, or a method has returned an error
Terminated == Phase \in {"Done", "Dropped"}

\* C20: under fair scheduling every run reaches Done or an error, and stays
\* there; at no time have more than 9 messages been consumed, 8 sent or 3
\* circuits run.  While the follower waits at a receive point and the leader
\* has neither sent nor closed, no step moves the follower: it stays at that
\* point, returns nothing, sends nothing and runs no circuit, for as long as
\* the leader stays silent.
C20_Termination ==
    /\ <>[]Terminated
    /\ [](/\ Len(received) <= 9
          /\ Len(wire) <= 8
          /\ Len(gc_log) <= 3)
    /\ [][Waiting => UNCHANGED <<pc, held, result, wire, received, gc_log, calls,
                                 core, msg>>]_vars
    /\ [](Waiting => ~Terminated)

\* the follower waits for the last message of the leader
C20_Witness ==
    /\ Waiting
    /\ pc = "recv_Sf2"
    /\ Len(received) = 8
    /\ Len(wire) = 7
    /\ Len(gc_log) = 3

(***************************************************************************)
(* Properties of the notary server.                                        *)
(***************************************************************************)
\* the id was issued and its entry has been removed
Spent(id) == id \in DOMAIN issued /\ id \notin DOMAIN store
\* the requests that obtained the SessionData of id
Winners(id) ==
    {r \in Requests : upg[r].pc \in {"upgrading", "finished"} /\ upg[r].session_id = id}
Replayed(r) ==
    /\ upg[r].pc = "responded"
    /\ "session_id" \in DOMAIN upg[r]
    /\ upg[r].response = DoesNotExist(upg[r].session_id)

\* C4: the upgrade that obtains a session's data removes the id from the
\* store; an id once removed is never in the store again; an upgrade for a
\* removed id returns BadProverRequest("Session id .. does not exist"); and a
\* request so answered never starts a notarization.
C4_OneShot ==
    /\ [][\A r \in Requests :
            (upg[r].pc = "extracted" /\ upg'[r].pc = "upgrading") =>
                /\ upg[r].session_id \in DOMAIN store
                /\ upg[r].session_id \notin DOMAIN store']_vars
    /\ [][\A id \in SessionIds : Spent(id) => Spent(id)']_vars
    /\ [][\A r \in Requests :
            (upg[r].pc = "extracted" /\ Spent(upg[r].session_id) /\ upg'[r] # upg[r]) =>
                /\ upg'[r].pc = "responded"
                /\ upg'[r].response = DoesNotExist(upg[r].session_id)
                /\ store' = store]_vars
    /\ [][\A r \in Requests : upg[r].pc = "responded" => upg'[r] = upg[r]]_vars

\* a second upgrade with the id of a session that was upgraded before
C4_Witness ==
    \E r1, r2 \in Requests :
        /\ r1 < r2
        /\ upg[r1].pc = "finished"
        /\ Replayed(r2)
        /\ upg[r2].session_id = upg[r1].session_id
        /\ ~upg[r2].arrived_while_stored

\* C5: for every session id at most one request has obtained its data; none
\* has while the entry is in the store, exactly one has once it is removed;
\* every other request handled for the id was answered BadProverRequest.
C5_ConcurrentReplay ==
    /\ \A id \in SessionIds :
          /\ Cardinality(Winners(id)) <= 1
          /\ id \in DOMAIN store => Winners(id) = {}
          /\ Spent(id) => Cardinality(Winners(id)) = 1
          /\ id \notin DOMAIN issued => Winners(id) = {}
    /\ \A r \in Requests :
          (upg[r].pc = "responded" /\ "session_id" \in DOMAIN upg[r]) => Replayed(r)

\* two requests for the same id were in flight together, the entry in the
\* store when each arrived: one obtained it, the other was refused
C5_Witness ==
    \E r1, r2 \in Requests :
        /\ r1 # r2
        /\ Replayed(r2)
        /\ upg[r2].arrived_while_stored
        /\ r1 \in Winners(upg[r2].session_id)

\* the sizes asked for, an absent one counted as 0, add up to more than the
\* ceiling
Oversize(data) ==
    /\ is_some(data.max_sent_data) \/ is_some(data.max_recv_data)
    /\ unwrap_or_default(data.max_sent_data) + unwrap_or_default(data.max_recv_data)
          > max_transcript_size

\* C6: a /session request answered with the threshold error asked for more
\* than the ceiling, and leaves the store and the set of ids issued as they
\* were; a request whose sizes add up, within the machine word, to more than
\* the ceiling is answered so.
C6_OversizeNoTrace ==
    /\ [][(init_log' # init_log /\ init_log'.response = ThresholdExceeded) =>
            /\ store' = store
            /\ issued' = issued
            /\ init_log'.request.ok
            /\ Oversize(init_log'.request)]_vars
    /\ [][(/\ init_log' # init_log
           /\ init_log'.request.ok
           /\ Oversize(init_log'.request)
           /\ ~Overflows(unwrap_or_default(init_log'.request.max_sent_data),
                         unwrap_or_default(init_log'.request.max_recv_data))) =>
            /\ init_log'.response = ThresholdExceeded
            /\ store' = store]_vars

\* an oversize request rejected while another session is stored
C6_Witness ==
    /\ init_log.request = SessionRequest(Some(1), Some(1), Some("message"))
    /\ init_log.response = ThresholdExceeded
    /\ DOMAIN store # {}
    /\ DOMAIN issued = DOMAIN store

\* the /session request just answered, when its body was well-formed
Answered == init_log' # init_log /\ init_log'.request.ok
\* the response is a new session id, never issued before, under which the
\* request's sizes and message are stored, every other entry left as it was
Accepted(req) ==
    /\ init_log'.response.status = "OK"
    /\ init_log'.response.session_id \notin DOMAIN issued \cup DOMAIN store
    /\ store' = Insert(store, init_log'.response.session_id,
                       SessionData(req.max_sent_data, req.max_recv_data, req.message))

\* C16: a request that gives neither size is accepted under every ceiling:
\* the response is a fresh session id and the entry stored has both sizes
\* absent.  A request that gives one size is compared with the ceiling as if
\* the other were 0: it is refused with the threshold error, and nothing is
\* stored, when the size given is above the ceiling, and accepted otherwise.
C16_CeilingOnlyWhenGiven ==
    [][Answered =>
         LET req == init_log'.request
             given == req.max_sent_data \cup req.max_recv_data
         IN  /\ (req.max_sent_data = None /\ req.max_recv_data = None) =>
                   /\ Accepted(req)
                   /\ store'[init_log'.response.session_id].max_sent_data = None
                   /\ store'[init_log'.response.session_id].max_recv_data = None
             /\ ((req.max_sent_data = None) # (req.max_recv_data = None)) =>
                   IF (CHOOSE size \in given : TRUE) > max_transcript_size
                   THEN init_log'.response = ThresholdExceeded /\ store' = store
                   ELSE Accepted(req)]_vars

\* a request without sizes was accepted under a ceiling of 0
C16_Witness ==
    /\ max_transcript_size = 0
    /\ init_log.request = SessionRequest(None, None, Some("message"))
    /\ init_log.response = SessionResponse(1)
    /\ DOMAIN store = {1}
    /\ store[1] = SessionData(None, None, Some("message"))

\* the upgrade of request r has taken the entry of its session id
Upgraded(r) == upg[r].pc = "extracted" /\ upg'[r].pc = "upgrading"

\* C17: every change of the store is one of two: the insertion, by an
\* accepted /session request, of one entry under an id that was never issued,
\* holding the request's sizes and message; or the removal, by an upgrade, of
\* the entry of the id the request names; in both every other entry stays as
\* it was.  A refused /session request and an upgrade for an id that is not
\* stored change nothing.  What an upgrade hands to notary_service are the
\* sizes and the message of the /session request that was issued the id.
C17_StoreConfined ==
    /\ [][store' # store =>
            \/ /\ init_log'.response.status = "OK"
               /\ init_log'.response.session_id \notin DOMAIN issued \cup DOMAIN store
               /\ store' = Insert(store, init_log'.response.session_id,
                                  SessionData(init_log'.request.max_sent_data,
                                              init_log'.request.max_recv_data,
                                              init_log'.request.message))
               /\ \A id \in DOMAIN store : store'[id] = store[id]
               /\ Cardinality(DOMAIN store') = Cardinality(DOMAIN store) + 1
               /\ upg' = upg
            \/ \E r \in Requests :
                  /\ Upgraded(r)
                  /\ upg[r].session_id \in DOMAIN store
                  /\ DOMAIN store' = DOMAIN store \ {upg[r].session_id}
                  /\ \A id \in DOMAIN store' : store'[id] = store[id]
                  /\ \A other \in Requests \ {r} : upg'[other] = upg[other]
                  /\ init_log' = init_log]_vars
    /\ [][(init_log' # init_log /\ init_log'.response.status # "OK") => store' = store]_vars
    /\ [][\A r \in Requests :
            (/\ upg[r].pc = "extracted"
             /\ upg[r].session_id \notin DOMAIN store
             /\ upg'[r] # upg[r]) => store' = store]_vars
    /\ [][\A r \in Requests :
            Upgraded(r) =>
               /\ upg'[r].session_id = upg[r].session_id
               /\ SessionData(upg'[r].max_sent_data, upg'[r].max_recv_data, upg'[r].message)
                     = issued[upg[r].session_id]
               /\ store' # store]_vars

\* two sessions with different data were stored; the upgrade of one took its
\* own data and left the other entry in the store
C17_Witness ==
    \E r \in Requests :
        /\ upg[r].pc = "upgrading"
        /\ DOMAIN issued = {1, 2}
        /\ issued[1] # issued[2]
        /\ DOMAIN store = DOMAIN issued \ {upg[r].session_id}
        /\ \A id \in DOMAIN store : store[id] = issued[id]
        /\ SessionData(upg[r].max_sent_data, upg[r].max_recv_data, upg[r].message)
              = issued[upg[r].session_id]

\* the ways a notarization fails
FailedOutcomes == {"panic", "ConfigError", "NotarizeError"}
\* the upgrade of request r took the entry of its id and its notarization has
\* not succeeded: the callback has not run (or never runs), or it failed
NotarizationFailed(r) ==
    \/ upg[r].pc = "upgrading"
    \/ upg[r].pc = "finished" /\ upg[r].outcome \in FailedOutcomes

\* C19: from the moment an upgrade has taken a session's entry, before
\* notary_service runs and whatever its outcome, the id is not in the store;
\* notary_service leaves the store as it is; a later upgrade that names the id
\* of a notarization that failed is answered BadProverRequest("Session id ..
\* does not exist") and starts nothing; and an id issued afterwards is
\* another one.
C19_SpentOnFailure ==
    /\ [](\A r \in Requests :
            upg[r].pc \in {"upgrading", "finished"} => Spent(upg[r].session_id))
    /\ [][\A r \in Requests :
            (upg[r].pc = "upgrading" /\ upg'[r] # upg[r]) =>
               /\ upg'[r].pc = "finished"
               /\ store' = store
               /\ issued' = issued]_vars
    /\ [][\A r1, r2 \in Requests :
            (/\ NotarizationFailed(r1)
             /\ upg[r2].pc = "extracted"
             /\ upg[r2].session_id = upg[r1].session_id
             /\ upg'[r2] # upg[r2]) =>
               /\ upg'[r2].pc = "responded"
               /\ upg'[r2].response = DoesNotExist(upg[r1].session_id)
               /\ store' = store]_vars
    /\ [][\A r \in Requests :
            (NotarizationFailed(r) /\ init_log' # init_log /\ init_log'.response.status = "OK") =>
               init_log'.response.session_id # upg[r].session_id]_vars

\* a notarization failed in the verifier; the retry with its id, made after
\* the failure, was refused; another session is in the store
C19_Witness ==
    \E r1, r2 \in Requests :
        /\ upg[r1].pc = "finished"
        /\ upg[r1].outcome = "NotarizeError"
        /\ Replayed(r2)
        /\ upg[r2].session_id = upg[r1].session_id
        /\ ~upg[r2].arrived_while_stored
        /\ DOMAIN store # {}

\* C7 as claimed: whenever the sizes of the last /session request add up, as
\* numbers, to more than the ceiling, the response is the threshold error, and
\* no stored entry has sizes that add up to more than the ceiling.
C7_CeilingExact ==
    /\ (init_log.request.ok /\ Oversize(init_log.request)) =>
          init_log.response = ThresholdExceeded
    /\ \A id \in DOMAIN store : ~Oversize(store[id])

\* C8 as claimed: a notarization whose stored message is None ends with
\* ConfigError returned to the caller.
C8_MissingMessage ==
    \A r \in Requests :
        (upg[r].pc = "finished" /\ ~is_some(issued[upg[r].session_id].message)) =>
            upg[r].outcome = "ConfigError"

====
